---- MODULE Spec2Model ----
(***************************************************************************)
(* A model of the Mandelbrot viewer of src/main.cpp.                       *)
(*                                                                         *)
(* Three state machines share this module:                                 *)
(*   SpecRaster  one call of UpdateMandelbrotTexture: the spawn loop, the  *)
(*               worker threads (one step per pixel written), the join     *)
(*               loop and the upload of the buffer to the texture;         *)
(*   SpecEscape  the body of computeRows for one pixel: the coordinate is  *)
(*               handed to CalculateMandelbrot and its result to           *)
(*               GetMandelbrotColor;                                       *)
(*   SpecView    the main loop: input handling (zoom, press, pan,          *)
(*               release), the conditional render pass and the draw step.  *)
(*                                                                         *)
(* Numbers.  A double is modelled as an exact number, a float (Vector2) as *)
(* a number rounded to a 24 bit significand.  Complex-plane lengths of the *)
(* view are integer multiples of a quantum chosen so that every width the  *)
(* zoom can reach, divided by screenWidth, is a whole number of quanta.    *)
(***************************************************************************)
EXTENDS Integers, Sequences, FiniteSets, TLC

VARIABLES
    \* ---- UpdateMandelbrotTexture (one pass) ----
    texWidth,       \* targetTexture.texture.width
    texHeight,      \* targetTexture.texture.height
    nThreads,       \* std::thread::hardware_concurrency(), at least 1
    rpc,            \* position of the calling thread in the pass
    spawnI,         \* i of the spawn loop
    currentY,       \* currentY of the spawn loop
    threads,        \* std::vector<std::thread>: [startY, endY, y, x] each
    joinI,          \* index of the join loop
    pixelColors,    \* per buffer index: the sequence of threads that wrote it
    texture,        \* content handed to UpdateTexture, or NotUploaded
    \* ---- one pixel of computeRows ----
    epc, cxIn, cyIn, iterLimitIn, iterOut, zxOut, zyOut, colorOut,
    \* ---- main loop ----
    mpc,            \* position in the loop body
    viewCenter,     \* Vector2 <<x, y>>, in quanta
    viewWidthComplex,   \* in quanta
    maxIterations,
    isPanning, panStartMouse, panStartCenter,
    needsRedraw,
    buttonDown,     \* state of MOUSE_BUTTON_LEFT at the last poll
    shown,          \* what mandelbrotTexture was last rendered from
    tick,           \* number of loop iterations begun
    last            \* the inputs and the view before the input handling of this tick

rasterVars == <<texWidth, texHeight, nThreads, rpc, spawnI, currentY, threads,
                joinI, pixelColors, texture>>
escapeVars == <<epc, cxIn, cyIn, iterLimitIn, iterOut, zxOut, zyOut, colorOut>>
viewVars   == <<mpc, viewCenter, viewWidthComplex, maxIterations, isPanning, panStartMouse,
                panStartCenter, needsRedraw, buttonDown, shown, tick, last>>
vars == <<rasterVars, escapeVars, viewVars>>

Abs(n) == IF n < 0 THEN -n ELSE n

RECURSIVE Pow(_, _)
Pow(b, e) == IF e = 0 THEN 1 ELSE b * Pow(b, e - 1)

(***************************************************************************)
(* Part 1.  UpdateMandelbrotTexture                                        *)
(***************************************************************************)
MaxTexWidth == 2
MaxTexHeight == 4
MaxThreads == 3

NotUploaded == <<"not uploaded">>

\* main.cpp:104
chunkSize(h, n) == h \div n

\* main.cpp:105
remainingRows(h, n) == h % n

rowsForThreadOffByOne(i, h, n) == chunkSize(h, n) + (IF i <= remainingRows(h, n) THEN 1 ELSE 0)

\* main.cpp:108, i counted from 0 as in the loop
rowsForThread(i, h, n) == chunkSize(h, n) + (IF i < remainingRows(h, n) THEN 1 ELSE 0)

\* main.cpp:99, the index of pixel (x, y) in pixelColors
PixelIndex(x, y, w) == y * w + x

\* main.cpp:85, the indices of std::vector<Color> pixelColors
BufferIndices == 0 .. (texWidth * texHeight - 1)

\* the thread has left computeRows (main.cpp:93, the outer loop's condition fails)
ThreadFinished(t) == threads[t].y >= threads[t].endY

JoinReturnsAtOnce(t) == t \in 1 .. Len(threads)

\* main.cpp:114, t.join() returns once the thread's function has returned
JoinReturns(t) == ThreadFinished(t)

InitRasterIdle ==
    /\ texWidth = 0 /\ texHeight = 0 /\ nThreads = 1
    /\ rpc = "off" /\ spawnI = 0 /\ currentY = 0
    /\ threads = <<>> /\ joinI = 0
    /\ pixelColors = <<>> /\ texture = NotUploaded

\* main.cpp:81-90 and 104-106
InitRaster ==
    /\ texWidth \in 1 .. MaxTexWidth
    /\ texHeight \in 0 .. MaxTexHeight
    /\ nThreads \in 1 .. MaxThreads
    /\ rpc = "spawn"
    /\ spawnI = 0
    /\ currentY = 0
    /\ threads = <<>>
    /\ joinI = 1
    /\ pixelColors = [idx \in 0 .. (texWidth * texHeight - 1) |-> <<>>]
    /\ texture = NotUploaded

\* main.cpp:107-112, one iteration of the spawn loop
SpawnThread ==
    /\ rpc = "spawn"
    /\ spawnI < nThreads
    /\ LET rows == rowsForThread(spawnI, texHeight, nThreads) IN
        IF rows > 0
        THEN /\ threads' = Append(threads, [startY |-> currentY,
                                            endY |-> currentY + rows,
                                            y |-> currentY, x |-> 0])
             /\ currentY' = currentY + rows
        ELSE UNCHANGED <<threads, currentY>>
    /\ spawnI' = spawnI + 1
    /\ UNCHANGED <<texWidth, texHeight, nThreads, rpc, joinI, pixelColors, texture>>

\* main.cpp:107, the spawn loop's condition fails
SpawnDone ==
    /\ rpc = "spawn"
    /\ spawnI >= nThreads
    /\ rpc' = "join"
    /\ UNCHANGED <<texWidth, texHeight, nThreads, spawnI, currentY, threads, joinI,
                   pixelColors, texture>>

\* main.cpp:93-101, thread t colours one pixel and advances
WorkerStep(t) ==
    /\ t \in 1 .. Len(threads)
    /\ ~ThreadFinished(t)
    /\ LET th == threads[t]
           idx == PixelIndex(th.x, th.y, texWidth)
           nx == IF th.x + 1 < texWidth THEN th.x + 1 ELSE 0
           ny == IF th.x + 1 < texWidth THEN th.y ELSE th.y + 1
       IN  /\ pixelColors' = [pixelColors EXCEPT ![idx] = Append(@, t)]
           /\ threads' = [threads EXCEPT ![t] = [th EXCEPT !.x = nx, !.y = ny]]
    /\ UNCHANGED <<texWidth, texHeight, nThreads, rpc, spawnI, currentY, joinI, texture>>

\* main.cpp:113-115, one iteration of the join loop
JoinThread ==
    /\ rpc = "join"
    /\ joinI <= Len(threads)
    /\ JoinReturns(joinI)
    /\ joinI' = joinI + 1
    /\ UNCHANGED <<texWidth, texHeight, nThreads, rpc, spawnI, currentY, threads,
                   pixelColors, texture>>

\* main.cpp:116
UploadTexture ==
    /\ rpc = "join"
    /\ joinI > Len(threads)
    /\ texture' = pixelColors
    /\ rpc' = "done"
    /\ UNCHANGED <<texWidth, texHeight, nThreads, spawnI, currentY, threads, joinI,
                   pixelColors>>

(***************************************************************************)
(* Part 2.  One pixel: CalculateMandelbrot and GetMandelbrotColor          *)
(*                                                                         *)
(* A coordinate is a numerator over GridDen.  The orbit is computed        *)
(* exactly: z_1 is over GridDen and every later z_n over the square of the *)
(* denominator of z_(n-1).  zx2 and zy2 are over the square of the         *)
(* denominator of zx and zy.                                               *)
(***************************************************************************)
GridDen == 2
MaxCoordNum == 4
MaxIterLimit == 3

Coords == (-MaxCoordNum) .. MaxCoordNum

\* main.cpp:30, q * (q + (cx - 0.25)) < 0.25 * cy * cy, every term times 256 * GridDen^4
InCardioid(cx, cy) ==
    LET a4 == 4 * cx - GridDen
        q16 == a4 * a4 + 16 * cy * cy
    IN  q16 * (q16 + 4 * GridDen * a4) < 64 * cy * cy * GridDen * GridDen

\* main.cpp:35, (cx + 1.0) * (cx + 1.0) + cy * cy < 0.0625, times 16 * GridDen^2
InPeriod2Bulb(cx, cy) ==
    16 * ((cx + GridDen) * (cx + GridDen) + cy * cy) < GridDen * GridDen

WhileConditionInclusive(zx2, zy2, den, iter, maxIter) ==
    zx2 + zy2 <= 4 * den * den /\ iter < maxIter

\* main.cpp:46, zx2 + zy2 < 4.0 && iter < maxIter
WhileCondition(zx2, zy2, den, iter, maxIter) ==
    zx2 + zy2 < 4 * den * den /\ iter < maxIter

\* main.cpp:46-52, the loop from the state (zx, zy, zx2, zy2, iter); zx, zy are over den
RECURSIVE EscapeLoop(_, _, _, _, _, _, _, _, _)
EscapeLoop(cx, cy, maxIter, zx, zy, zx2, zy2, den, iter) ==
    IF WhileCondition(zx2, zy2, den, iter, maxIter)
    THEN LET nden == IF den = 1 THEN GridDen ELSE den * den
             nzy == (2 * zx * zy) * (nden \div (den * den)) + cy * (nden \div GridDen)
             nzx == (zx2 - zy2) * (nden \div (den * den)) + cx * (nden \div GridDen)
         IN  EscapeLoop(cx, cy, maxIter, nzx, nzy, nzx * nzx, nzy * nzy, nden, iter + 1)
    ELSE [iter |-> iter, zx |-> zx, zy |-> zy, den |-> den]

\* main.cpp:28-56
CalculateMandelbrot(cx, cy, maxIter) ==
    IF InCardioid(cx, cy)
    THEN [iter |-> maxIter, zx |-> 0, zy |-> 0, den |-> 1]
    ELSE IF InPeriod2Bulb(cx, cy)
    THEN [iter |-> maxIter, zx |-> 0, zy |-> 0, den |-> 1]
    ELSE EscapeLoop(cx, cy, maxIter, 0, 0, 0, 0, 1, 0)

\* main.cpp:64, the argument of the first std::log, over den * den
LogArg1(zReal, zImag) == zReal * zReal + zImag * zImag

\* main.cpp:64, std::log is finite exactly for a positive argument
LogFinite(num) == num > 0

\* main.cpp:65, the sign of log_zn / LOG2 = ln(num / den^2) / 2 / ln 2, for num > 0
LogArg2Sign(num, den) ==
    IF num > den * den THEN 1 ELSE IF num = den * den THEN 0 ELSE -1

GetMandelbrotColorExclusive(iterations, currentMaxIterations, zReal, zImag, den) ==
    IF iterations > currentMaxIterations
    THEN "BLACK"
    ELSE IF LogFinite(LogArg1(zReal, zImag)) /\ LogArg2Sign(LogArg1(zReal, zImag), den) > 0
    THEN "HSV"
    ELSE "NAN"

\* main.cpp:60-71.  "HSV" stands for ColorFromHSV of a finite hue; "NAN" for the
\* colour of a hue that is not a number: std::log of zero or of a negative number
\* at line 64 or 65, or std::fmod of an infinite smoothIter at line 67.
GetMandelbrotColor(iterations, currentMaxIterations, zReal, zImag, den) ==
    IF iterations >= currentMaxIterations
    THEN "BLACK"
    ELSE IF LogFinite(LogArg1(zReal, zImag)) /\ LogArg2Sign(LogArg1(zReal, zImag), den) > 0
    THEN "HSV"
    ELSE "NAN"

InitEscapeIdle ==
    /\ epc = "off" /\ cxIn = 0 /\ cyIn = 0 /\ iterLimitIn = 0
    /\ iterOut = 0 /\ zxOut = <<0, 1>> /\ zyOut = <<0, 1>> /\ colorOut = "none"

\* main.cpp:95-97, the coordinate of the pixel and the uninitialised outputs
InitEscape ==
    /\ epc = "coord"
    /\ cxIn \in Coords
    /\ cyIn \in Coords
    /\ iterLimitIn \in 0 .. MaxIterLimit
    /\ iterOut = 0 /\ zxOut = <<0, 1>> /\ zyOut = <<0, 1>> /\ colorOut = "none"

\* main.cpp:98
CallCalculateMandelbrot ==
    /\ epc = "coord"
    /\ LET r == CalculateMandelbrot(cxIn, cyIn, iterLimitIn) IN
        /\ iterOut' = r.iter
        /\ zxOut' = <<r.zx, r.den>>
        /\ zyOut' = <<r.zy, r.den>>
    /\ epc' = "iterated"
    /\ UNCHANGED <<cxIn, cyIn, iterLimitIn, colorOut>>

\* main.cpp:99
CallGetMandelbrotColor ==
    /\ epc = "iterated"
    /\ colorOut' = GetMandelbrotColor(iterOut, iterLimitIn, zxOut[1], zyOut[1], zxOut[2])
    /\ epc' = "coloured"
    /\ UNCHANGED <<cxIn, cyIn, iterLimitIn, iterOut, zxOut, zyOut>>

(***************************************************************************)
(* Part 3.  The main loop                                                  *)
(*                                                                         *)
(* The wheel moves in whole notches, so viewWidthComplex is                *)
(* 3.5 * zoomFactor^(-k) for a whole zoom level k.  One quantum is         *)
(* 3.5 / (screenWidth * PixelScale(0)).                                    *)
(***************************************************************************)
MaxZoomOut == 1
MaxZoomIn == 2
MaxTicks == 3

\* main.cpp:7
screenWidth == 1280

\* main.cpp:8
screenHeight == 720

\* main.cpp:77, the significand of a float
FloatBits == 24

\* main.cpp:133, ln(zoomFactor) = ln(1.1) in millionths
LnZoomFactorMicro == 95310

\* quanta per unit of the finest scale; the initial centre is about 2^27 quanta
Resolution == Pow(2, 27) \div ((screenWidth \div 5) * Pow(10, MaxZoomOut) * Pow(11, MaxZoomIn))

\* viewWidthComplex / screenWidth at zoom level k, main.cpp:13 and 132
PixelScale(k) == Resolution * Pow(10, k + MaxZoomOut) * Pow(11, MaxZoomIn - k)

ZoomLevels == (-MaxZoomOut) .. MaxZoomIn

\* main.cpp:13-14
initialViewWidthComplex == screenWidth * PixelScale(0)

\* the zoom level of a width: width = initialViewWidthComplex * zoomFactor^(-k)
ZoomLevelOf(width) == CHOOSE k \in ZoomLevels : screenWidth * PixelScale(k) = width

\* 2^FloatBits: below it every whole number of quanta is a float
FloatExactLimit == Pow(2, FloatBits)

\* the spacing of the floats around v: 2^(bit length of |v| - FloatBits), at least 1
FloatUlp(v) ==
    LET a == Abs(v) IN
    IF a < FloatExactLimit THEN 1
    ELSE IF a < 2 * FloatExactLimit THEN 2
    ELSE IF a < 4 * FloatExactLimit THEN 4
    ELSE IF a < 8 * FloatExactLimit THEN 8
    ELSE IF a < 16 * FloatExactLimit THEN 16
    ELSE IF a < 32 * FloatExactLimit THEN 32
    ELSE IF a < 64 * FloatExactLimit THEN 64
    ELSE 128

\* static_cast<float> and every float operation: round to nearest, ties to even
ToFloat(v) ==
    LET u == FloatUlp(v)
        q == Abs(v) \div u
        r == Abs(v) % u
        m == IF 2 * r > u \/ (2 * r = u /\ q % 2 = 1) THEN q + 1 ELSE q
    IN  IF v < 0 THEN -(m * u) ELSE m * u

\* static_cast<int> of a double: truncation towards zero
TruncDiv(a, b) == IF a >= 0 THEN a \div b ELSE -((-a) \div b)

\* main.cpp:73-78
MapPixelToComplex(pixelPos, currentViewCenter, currentComplexWidth, currentScreenWidth, currentScreenHeight) ==
    LET scale == currentComplexWidth \div currentScreenWidth
        cx == currentViewCenter[1] + ((2 * pixelPos[1] - currentScreenWidth) * scale) \div 2
        cy == currentViewCenter[2] - ((2 * pixelPos[2] - currentScreenHeight) * scale) \div 2
    IN  <<ToFloat(cx), ToFloat(cy)>>

\* main.cpp:132, viewWidthComplex *= std::pow(zoomFactor, -wheelMove), zoomFactor = 11/10
ZoomWidth(width, wheelMove) ==
    IF wheelMove >= 0
    THEN (width \div Pow(11, wheelMove)) * Pow(10, wheelMove)
    ELSE (width \div Pow(10, -wheelMove)) * Pow(11, -wheelMove)

IterationGainInverted(width) == -(150 * ZoomLevelOf(width) * LnZoomFactorMicro)

\* main.cpp:133, 150.0 * std::log(initialViewWidthComplex / viewWidthComplex), in millionths
IterationGainMicro(width) == 150 * ZoomLevelOf(width) * LnZoomFactorMicro

IterationsForWidthUnfloored(width) ==
    TruncDiv(100 * 1000000 + IterationGainMicro(width), 1000000)

\* main.cpp:133-134
IterationsForWidth(width) ==
    LET raw == TruncDiv(100 * 1000000 + IterationGainMicro(width), 1000000)
    IN  IF raw < 100 THEN 100 ELSE raw

\* main.cpp:129-141, the view after a wheel move of wheelMove with the cursor at mousePos
ZoomAtCursor(center, width, wheelMove, mousePos) ==
    LET before == MapPixelToComplex(mousePos, center, width, screenWidth, screenHeight)
        nwidth == ZoomWidth(width, wheelMove)
        after == MapPixelToComplex(mousePos, center, nwidth, screenWidth, screenHeight)
    IN  [center |-> <<ToFloat(center[1] + ToFloat(before[1] - after[1])),
                      ToFloat(center[2] - ToFloat(before[2] - after[2]))>>,
         width |-> nwidth,
         iter |-> IterationsForWidth(nwidth)]

PanCenterFrozen(startCenter, startMouse, mousePos, currentScale) == startCenter

\* main.cpp:152-154
PanCenter(startCenter, startMouse, mousePos, currentScale) ==
    <<ToFloat(startCenter[1] - (mousePos[1] - startMouse[1]) * currentScale),
      ToFloat(startCenter[2] - (mousePos[2] - startMouse[2]) * currentScale)>>

RedrawOnZoomOnly(redraw, wheelMove, panning, down) == redraw \/ wheelMove # 0

\* main.cpp:140 and 155, needsRedraw after the input handling
RedrawAfterInput(redraw, wheelMove, panning, down) ==
    redraw \/ wheelMove # 0 \/ (panning /\ down)

WheelMoves == {-2, -1, 0, 1, 2}

MousePositions == {<<401, 201>>, <<640, 360>>, <<903, 500>>}

Blank == [center |-> <<0, 0>>, width |-> 0, iter |-> 0, pass |-> 0]

InitViewIdle ==
    /\ mpc = "off" /\ viewCenter = <<0, 0>> /\ viewWidthComplex = 0 /\ maxIterations = 0
    /\ isPanning = FALSE /\ panStartMouse = <<0, 0>> /\ panStartCenter = <<0, 0>>
    /\ needsRedraw = FALSE /\ buttonDown = FALSE /\ shown = Blank /\ tick = 0
    /\ last = <<>>

\* main.cpp:11-24 and 120-124
InitView ==
    /\ mpc = "input"
    /\ maxIterations = 100
    /\ viewCenter = <<ToFloat(-((initialViewWidthComplex) \div 5)), 0>>
    /\ viewWidthComplex = initialViewWidthComplex
    /\ isPanning = FALSE
    /\ panStartMouse = <<0, 0>>
    /\ panStartCenter = <<0, 0>>
    /\ needsRedraw = TRUE
    /\ buttonDown = FALSE
    /\ shown = Blank
    /\ tick = 0
    /\ last = <<>>

\* main.cpp:127-160, the input handling of one loop iteration
HandleInput ==
    /\ mpc = "input"
    /\ tick < MaxTicks
    /\ \E wheelMove \in WheelMoves, currentMousePos \in MousePositions, down \in BOOLEAN :
        /\ ZoomLevelOf(viewWidthComplex) + wheelMove \in ZoomLevels
        /\ \E zoomed \in {IF wheelMove # 0
                           THEN ZoomAtCursor(viewCenter, viewWidthComplex, wheelMove,
                                             currentMousePos)
                           ELSE [center |-> viewCenter, width |-> viewWidthComplex,
                                 iter |-> maxIterations]} :
            LET currentScale == zoomed.width \div screenWidth
                pressed == down /\ ~buttonDown
                released == ~down /\ buttonDown
                panning == isPanning \/ pressed
                startMouse == IF pressed THEN currentMousePos ELSE panStartMouse
                startCenter == IF pressed THEN zoomed.center ELSE panStartCenter
            IN  /\ viewWidthComplex' = zoomed.width
                /\ maxIterations' = zoomed.iter
                /\ panStartMouse' = startMouse
                /\ panStartCenter' = startCenter
                /\ viewCenter' = IF panning /\ down
                                 THEN PanCenter(startCenter, startMouse, currentMousePos,
                                                currentScale)
                                 ELSE zoomed.center
                /\ isPanning' = (panning /\ ~released)
                /\ needsRedraw' = RedrawAfterInput(needsRedraw, wheelMove, panning, down)
                /\ last' = [wheelMove |-> wheelMove, mousePos |-> currentMousePos,
                            down |-> down, center |-> viewCenter,
                            width |-> viewWidthComplex, iter |-> maxIterations,
                            panning |-> isPanning]
        /\ buttonDown' = down
    /\ tick' = tick + 1
    /\ mpc' = "render"
    /\ UNCHANGED shown

\* main.cpp:163-166; the pass renders the view it is handed and uploads it
RenderIfNeeded ==
    /\ mpc = "render"
    /\ IF needsRedraw
       THEN /\ shown' = [center |-> viewCenter, width |-> viewWidthComplex,
                         iter |-> maxIterations, pass |-> tick]
            /\ needsRedraw' = FALSE
       ELSE UNCHANGED <<shown, needsRedraw>>
    /\ mpc' = "draw"
    /\ UNCHANGED <<viewCenter, viewWidthComplex, maxIterations, isPanning, panStartMouse,
                   panStartCenter, buttonDown, tick, last>>

\* main.cpp:169-187
Draw ==
    /\ mpc = "draw"
    /\ mpc' = "input"
    /\ UNCHANGED <<viewCenter, viewWidthComplex, maxIterations, isPanning, panStartMouse,
                   panStartCenter, needsRedraw, buttonDown, shown, tick, last>>

(***************************************************************************)
(* Specifications                                                          *)
(***************************************************************************)
InitR == InitRaster /\ InitEscapeIdle /\ InitViewIdle

NextR ==
    \/ SpawnThread /\ UNCHANGED <<escapeVars, viewVars>>
    \/ SpawnDone /\ UNCHANGED <<escapeVars, viewVars>>
    \/ (\E t \in 1 .. MaxThreads : WorkerStep(t)) /\ UNCHANGED <<escapeVars, viewVars>>
    \/ JoinThread /\ UNCHANGED <<escapeVars, viewVars>>
    \/ UploadTexture /\ UNCHANGED <<escapeVars, viewVars>>

SpecRaster == InitR /\ [][NextR]_vars

InitE == InitEscape /\ InitRasterIdle /\ InitViewIdle

NextE ==
    \/ CallCalculateMandelbrot /\ UNCHANGED <<rasterVars, viewVars>>
    \/ CallGetMandelbrotColor /\ UNCHANGED <<rasterVars, viewVars>>

SpecEscape == InitE /\ [][NextE]_vars

InitV == InitView /\ InitRasterIdle /\ InitEscapeIdle

NextV ==
    \/ HandleInput /\ UNCHANGED <<rasterVars, escapeVars>>
    \/ RenderIfNeeded /\ UNCHANGED <<rasterVars, escapeVars>>
    \/ Draw /\ UNCHANGED <<rasterVars, escapeVars>>

SpecView == InitV /\ [][NextV]_vars

(***************************************************************************)
(* Claims about UpdateMandelbrotTexture, checked under SpecRaster          *)
(***************************************************************************)
BandsContiguous ==
    /\ (Len(threads) = 0) => (currentY = 0)
    /\ (Len(threads) > 0) => (threads[1].startY = 0)
    /\ \A t \in 1 .. Len(threads) :
        /\ threads[t].startY < threads[t].endY
        /\ t < Len(threads) => threads[t + 1].startY = threads[t].endY
        /\ t = Len(threads) => threads[t].endY = currentY

RowOfIndex(idx) == idx \div texWidth

\* C1: the row bands handed to the workers are contiguous, pairwise disjoint and,
\* once the spawn loop has ended, cover exactly rows 0 .. texHeight - 1, for every
\* height (also one below the worker count); under every interleaving no buffer
\* index is written twice or by a thread other than the owner of its row, no
\* index outside the buffer is written, and when all workers are done every pixel
\* was written exactly once.
C1_BandsCoverAndPixelsOnce ==
    (rpc # "off") =>
        /\ BandsContiguous
        /\ currentY <= texHeight
        /\ (rpc # "spawn") => (currentY = texHeight)
        /\ DOMAIN pixelColors = BufferIndices
        /\ \A idx \in DOMAIN pixelColors :
            /\ Len(pixelColors[idx]) <= 1
            /\ \A k \in 1 .. Len(pixelColors[idx]) :
                /\ threads[pixelColors[idx][k]].startY <= RowOfIndex(idx)
                /\ RowOfIndex(idx) < threads[pixelColors[idx][k]].endY
        /\ (rpc = "done") => (\A idx \in BufferIndices : Len(pixelColors[idx]) = 1)

C1_Witness ==
    /\ rpc = "done"
    /\ texHeight = 2
    /\ nThreads = 3
    /\ Len(threads) = 2
    /\ \A idx \in BufferIndices : Len(pixelColors[idx]) = 1

\* C3: the buffer is uploaded to the texture only after every worker of the pass
\* has finished its whole row band, so every pixel of an uploaded buffer was
\* written during the pass.
C3_UploadOnlyWhenComplete ==
    (rpc # "off" /\ texture # NotUploaded) =>
        /\ spawnI >= nThreads
        /\ \A t \in 1 .. Len(threads) : ThreadFinished(t)
        /\ DOMAIN texture = BufferIndices
        /\ \A idx \in BufferIndices : Len(texture[idx]) = 1

C3_Witness ==
    /\ texture # NotUploaded
    /\ Len(threads) = 3
    /\ texHeight = 4
    /\ texWidth = 2

(***************************************************************************)
(* Claims about one pixel, checked under SpecEscape                        *)
(***************************************************************************)
\* the orbit z_0 = 0, z_(k+1) = z_k^2 + c as [x, y, den]
RECURSIVE RefOrbit(_, _, _)
RefOrbit(cx, cy, n) ==
    IF n = 0 THEN [x |-> 0, y |-> 0, den |-> 1]
    ELSE LET p == RefOrbit(cx, cy, n - 1)
             d == IF p.den = 1 THEN GridDen ELSE p.den * p.den
             lift == d \div (p.den * p.den)
         IN  [x |-> (p.x * p.x - p.y * p.y) * lift + cx * (d \div GridDen),
              y |-> 2 * p.x * p.y * lift + cy * (d \div GridDen),
              den |-> d]

RefEscaped(cx, cy, n) ==
    LET p == RefOrbit(cx, cy, n) IN p.x * p.x + p.y * p.y >= 4 * p.den * p.den

\* the first index from n on at which the orbit has escaped, or cap
RECURSIVE RefFirstEscape(_, _, _, _)
RefFirstEscape(cx, cy, n, cap) ==
    IF n >= cap THEN cap
    ELSE IF RefEscaped(cx, cy, n) THEN n
    ELSE RefFirstEscape(cx, cy, n + 1, cap)

ShortCircuited == InCardioid(cxIn, cyIn) \/ InPeriod2Bulb(cxIn, cyIn)

\* C6: the count returned lies in 0 .. cap and is the first index at which the
\* orbit has |z_n|^2 >= 4, or cap if there is none below cap; outside the two
\* interior tests the orbit value returned is z_count; a point inside the
\* cardioid or bulb test gets cap and the orbit (0, 0), and cap is also what the
\* reference iteration gives for it.
C6_EscapeCount ==
    (epc \in {"iterated", "coloured"}) =>
        /\ iterOut \in 0 .. iterLimitIn
        /\ iterOut = RefFirstEscape(cxIn, cyIn, 0, iterLimitIn)
        /\ ShortCircuited => (iterOut = iterLimitIn /\ zxOut[1] = 0 /\ zyOut[1] = 0)
        /\ ~ShortCircuited =>
            LET p == RefOrbit(cxIn, cyIn, iterOut)
            IN  zxOut = <<p.x, p.den>> /\ zyOut = <<p.y, p.den>>

C6_Witness ==
    /\ epc = "iterated"
    /\ ~ShortCircuited
    /\ iterLimitIn = 3
    /\ iterOut = 2
    /\ zxOut[1] * zxOut[1] + zyOut[1] * zyOut[1] = 4 * zxOut[2] * zxOut[2]

Tolerance(width) == (width \div screenWidth) \div 4096

Close(a, b, width) == Abs(a - b) <= Tolerance(width)

CursorPoint(center, width) ==
    MapPixelToComplex(last.mousePos, center, width, screenWidth, screenHeight)

Zoomed == mpc # "off" /\ tick > 0 /\ last.wheelMove # 0

\* C4: after a tick with a wheel move, in the Idle as in the Panning state, the
\* point MapPixelToComplex gives for the cursor's pixel under the new view
\* equals, in x and in y, the point it gave under the view before the zoom.
C4_ZoomToCursor ==
    Zoomed =>
        /\ Close(CursorPoint(viewCenter, viewWidthComplex)[1],
                 CursorPoint(last.center, last.width)[1], viewWidthComplex)
        /\ Close(CursorPoint(viewCenter, viewWidthComplex)[2],
                 CursorPoint(last.center, last.width)[2], viewWidthComplex)

\* C5: viewWidthComplex > 0 and maxIterations >= 100 in every state, and every
\* render pass was handed an iteration cap >= 100.
C5_ViewStateInvariant ==
    (mpc # "off") =>
        /\ viewWidthComplex > 0
        /\ maxIterations >= 100
        /\ (shown # Blank) => (shown.iter >= 100 /\ shown.width > 0)

C5_Witness ==
    /\ mpc = "draw"
    /\ viewWidthComplex > initialViewWidthComplex
    /\ shown.width = viewWidthComplex
    /\ shown.pass = tick
    /\ maxIterations = 100

\* the cap of the claim: max(100, 100 + 150 * ln(3.5 / width)) truncated
CapOfWidth(width) ==
    LET k == ZoomLevelOf(width)
    IN  IF k <= 0 THEN 100 ELSE 100 + (150 * k * LnZoomFactorMicro) \div 1000000

\* C8: a step that strictly decreases viewWidthComplex does not decrease
\* maxIterations; maxIterations is never below 100; after every step it is the
\* cap of the current width alone.
C8_CapMonotonic ==
    [][(mpc' # "off") =>
        /\ (viewWidthComplex' < viewWidthComplex) => (maxIterations' >= maxIterations)
        /\ maxIterations' >= 100
        /\ maxIterations' = CapOfWidth(viewWidthComplex')]_vars

C8_Witness ==
    /\ mpc = "render"
    /\ tick = 2
    /\ last.wheelMove > 0
    /\ last.width < initialViewWidthComplex
    /\ viewWidthComplex < last.width
    /\ maxIterations > last.iter
    /\ last.iter > 100

Panned == mpc # "off" /\ tick > 0 /\ isPanning /\ last.down

PanDelta == <<last.mousePos[1] - panStartMouse[1], last.mousePos[2] - panStartMouse[2]>>

CurrentScale == viewWidthComplex \div screenWidth

ViewChangedThisTick ==
    \/ viewCenter # last.center
    \/ viewWidthComplex # last.width
    \/ maxIterations # last.iter

\* C10: at every draw step needsRedraw is false and the texture drawn was
\* rendered from the current viewCenter, viewWidthComplex and maxIterations; a
\* tick that changed one of the three ran a render pass before its draw step.
C10_DrawnImageCurrent ==
    (mpc = "draw") =>
        /\ ~needsRedraw
        /\ shown.center = viewCenter
        /\ shown.width = viewWidthComplex
        /\ shown.iter = maxIterations
        /\ ViewChangedThisTick => (shown.pass = tick)

C10_Witness ==
    /\ mpc = "draw"
    /\ tick > 1
    /\ last.wheelMove = 0
    /\ last.panning
    /\ viewCenter # last.center
    /\ shown.pass = tick
    /\ shown.center = viewCenter

====
